---- MODULE Spec2Model ----
(***************************************************************************)
(* Functional-harmony chord classifier over equal divisions of the octave. *)
(* A Tuning System (EDOSystem) is built once; classify_chord is then       *)
(* called chord by chord.  A Python set is modelled by the sequence of its *)
(* members in iteration order (any order is possible), so that a loop over *)
(* the set is a scan of that sequence.                                     *)
(***************************************************************************)
EXTENDS Integers, Sequences, FiniteSets, TLC

VARIABLES system, chord, result, pc, analysis

\* the arguments of a constructor call and what the call ended with
VARIABLES args, built

\* the edo of a numeric computation, the perfect fifth found for it and the
\* quality list generated for it
VARIABLES numeric_edo, fifth, generated

\* the sections of the document being parsed, the index of the next section,
\* the registry built so far and the exception that ended the parse
VARIABLES document, cursor, edo_systems, parse_error

\* the call a consumer of a built Tuning System has just made, and what the
\* call returned
VARIABLES call, returned

classifier_vars == <<system, chord, result, analysis>>

build_vars == <<args, built>>

numeric_vars == <<numeric_edo, fifth, generated>>

parser_vars == <<document, cursor, edo_systems, parse_error>>

consumer_vars == <<call, returned>>

vars == <<pc, classifier_vars, build_vars, numeric_vars, parser_vars, consumer_vars>>

----------------------------------------------------------------------------
(* Bounds of the model *)

\* largest edo of the exhaustively enumerated small Tuning Systems
MaxEdo == 2

\* largest chord passed to the classifier of a small Tuning System
MaxChord == 2

\* largest number of chord shapes passed to the constructor
MaxShapes == 1

\* largest edo of the consecutive range the numeric computations are run for
MaxNumericEdo == 60

\* largest number of sections of a parsed document
MaxSections == 2

----------------------------------------------------------------------------
(* Enumerations *)

STABLE == "STABLE"
MODAL == "MODAL"
HOLLOW == "HOLLOW"
UNSTABLE == "UNSTABLE"
LEADING == "LEADING"
ODD == "ODD"

Quality == {STABLE, MODAL, HOLLOW, UNSTABLE, LEADING, ODD}

TONIC == "tonic"
PREDOMINANT == "predominant"
DOMINANT == "dominant"
MEDIANT == "mediant"

Function == {TONIC, PREDOMINANT, DOMINANT, MEDIANT}

\* exceptions a call can end with
KeyError == "KeyError"
ValueError == "ValueError"

\* the call raised nothing
NoError == "NoError"

\* no call has returned yet
NoResult == "NoResult"

\* analyze_chord has returned no record (yet, or because it raised)
NoAnalysis == [raised |-> NoResult]

\* a map that reads an empty code as ODD
quality_map_with_blank ==
    ("s" :> STABLE) @@ ("m" :> MODAL) @@ ("h" :> HOLLOW) @@
    ("u" :> UNSTABLE) @@ ("l" :> LEADING) @@ ("o" :> ODD) @@ ("" :> ODD)

quality_map ==
    ("s" :> STABLE) @@ ("m" :> MODAL) @@ ("h" :> HOLLOW) @@
    ("u" :> UNSTABLE) @@ ("l" :> LEADING) @@ ("o" :> ODD)

----------------------------------------------------------------------------
(* Python primitives *)

\* a remainder that takes the sign of the dividend, as C's % does
truncated_remainder(a, n) == IF a < 0 THEN -((-a) % n) ELSE a % n

\* a % n of Python for n > 0: the residue in 0..n-1, also for negative a
PyMod(a, n) == a % n

Abs(x) == IF x < 0 THEN -x ELSE x

\* the members of a Python set given by its iteration order
Elems(seq) == {seq[k] : k \in DOMAIN seq}

\* d[k] of a dict: KeyError when the key is missing
Lookup(d, k) == IF k \in DOMAIN d THEN d[k] ELSE KeyError

RECURSIVE Orders(_)
\* the iteration orders a set can have
Orders(S) ==
    IF S = {} THEN {<<>>}
    ELSE UNION {{<<x>> \o p : p \in Orders(S \ {x})} : x \in S}

RECURSIVE sorted(_)
\* sorted(intervals): the members in ascending order
sorted(S) ==
    IF S = {} THEN <<>>
    ELSE LET lo == CHOOSE x \in S : \A y \in S : x <= y
         IN <<lo>> \o sorted(S \ {lo})

----------------------------------------------------------------------------
(* EDOSystem: construction and derived values *)

\* cents in an octave
OctaveCents == 1200

\* size of the just perfect fifth, in cents (rounded)
FifthCents == 702

(* Python floats are IEEE-754 doubles: every operation returns the exact     *)
(* result rounded to 53 significant binary digits, ties to even.  A double  *)
(* is kept as a wide natural number w and a scale p, standing for w / 2^p;  *)
(* a wide number is four limbs <<w3, w2, w1, w0>> of 16 bits each.  The     *)
(* operations below cover 1 <= edo < 2048.                                  *)

\* significant binary digits of a double
DoubleBits == 53

\* 2^16, the base of the limbs
Limb == 65536

\* number of binary digits of 0 <= n < 2^16
bit_length(n) == CHOOSE k \in 0..16 : n < 2^k /\ (k = 0 \/ n >= 2^(k - 1))

wide_bit_length(w) ==
    IF w[1] # 0 THEN 48 + bit_length(w[1])
    ELSE IF w[2] # 0 THEN 32 + bit_length(w[2])
    ELSE IF w[3] # 0 THEN 16 + bit_length(w[3])
    ELSE bit_length(w[4])

\* w + n for 0 <= n <= 2^16
wide_plus(w, n) ==
    LET s0 == w[4] + n
        s1 == w[3] + s0 \div Limb
        s2 == w[2] + s1 \div Limb
        s3 == w[1] + s2 \div Limb
    IN  <<s3, s2 % Limb, s1 % Limb, s0 % Limb>>

\* w * n for 0 <= n < 2^11 and w * n < 2^64
wide_times(w, n) ==
    LET d0 == w[4] * n
        d1 == w[3] * n + d0 \div Limb
        d2 == w[2] * n + d1 \div Limb
        d3 == w[1] * n + d2 \div Limb
    IN  <<d3, d2 % Limb, d1 % Limb, d0 % Limb>>

\* a < b
wide_less(a, b) ==
    \E k \in 1..4 : a[k] < b[k] /\ \A j \in 1..(k - 1) : a[j] = b[j]

\* a - b for a >= b
wide_minus(a, b) ==
    LET d0 == a[4] - b[4]
        d1 == a[3] - b[3] - (IF d0 < 0 THEN 1 ELSE 0)
        d2 == a[2] - b[2] - (IF d1 < 0 THEN 1 ELSE 0)
        d3 == a[1] - b[1] - (IF d2 < 0 THEN 1 ELSE 0)
    IN  <<d3, d2 % Limb, d1 % Limb, d0 % Limb>>

\* the integer n at scale p, 32 <= p <= 53: n * 2^p
scaled(n, p) == wide_times(<<2^(p - 32) \div Limb, 2^(p - 32) % Limb, 0, 0>>, n)

\* w rounded to 53 significant digits, ties to even
round_to_double(w) ==
    LET drop == wide_bit_length(w) - DoubleBits
        low == w[4] % 2^drop
        half == 2^(drop - 1)
        odd == (w[4] \div 2^drop) % 2 = 1
        up == low > half \/ (low = half /\ odd)
        cut == <<w[1], w[2], w[3], w[4] - low>>
    IN  IF drop <= 0 THEN w
        ELSE IF up THEN wide_plus(cut, 2^drop) ELSE cut

\* cent_per_step = 1200.0 / edo: the double m / 2^p, by long division of the
\* quotient brought into [1, 2) and rounding of its 53-digit significand
cent_per_step(edo) ==
    LET up == IF OctaveCents >= edo
              THEN CHOOSE e \in 0..11 : edo * 2^e <= OctaveCents /\ OctaveCents < edo * 2^(e + 1)
              ELSE 0
        dn == IF OctaveCents >= edo THEN 0
              ELSE CHOOSE k \in 1..11 : OctaveCents * 2^k >= edo /\ OctaveCents * 2^(k - 1) < edo
        num == OctaveCents * 2^dn
        den == edo * 2^up
        q3 == (num * 16) \div den
        r3 == (num * 16) % den
        q2 == (r3 * Limb) \div den
        r2 == (r3 * Limb) % den
        q1 == (r2 * Limb) \div den
        r1 == (r2 * Limb) % den
        q0 == (r1 * Limb) \div den
        r0 == (r1 * Limb) % den
        round_up == 2 * r0 > den \/ (2 * r0 = den /\ q0 % 2 = 1)
    IN  [m |-> IF round_up THEN wide_plus(<<q3, q2, q1, q0>>, 1) ELSE <<q3, q2, q1, q0>>,
         p |-> 52 - up + dn]

\* i * cent_per_step: the double w / 2^p with p the scale of cent_per_step
float_cents(cps, i) == round_to_double(wide_times(cps.m, i))

\* the key abs(i * cent_per_step - 702), at the scale of cent_per_step
fifth_distance(cps, i) ==
    LET x == float_cents(cps, i)
        just == scaled(FifthCents, cps.p)
    IN  round_to_double(IF wide_less(x, just) THEN wide_minus(just, x) ELSE wide_minus(x, just))

\* the lowest index among those of least key; keys[i + 1] is the key of i
first_minimum(keys) ==
    CHOOSE i \in 0..(Len(keys) - 1) :
        \A j \in 0..(Len(keys) - 1) :
            \/ wide_less(keys[i + 1], keys[j + 1])
            \/ (keys[i + 1] = keys[j + 1] /\ i <= j)

\* the keys of 0, ..., edo - 1
fifth_keys(cps, edo) == <<>> \o [k \in 1..edo |-> fifth_distance(cps, k - 1)]

\* min(range(edo), key=lambda i: abs(i * cent_per_step - 702))
perfect_fifth(edo) == first_minimum(fifth_keys(cent_per_step(edo), edo))

\* a validation that never looks at the note-name tables
post_init_without_note_names(edo, interval_quality_list, chord_intervals, chord_notation_systems, note_name_systems) ==
    IF Len(interval_quality_list) # edo THEN ValueError
    ELSE IF \E k \in DOMAIN interval_quality_list :
                interval_quality_list[k] \notin DOMAIN quality_map THEN KeyError
    ELSE IF \E name \in DOMAIN chord_notation_systems :
                Len(chord_notation_systems[name]) # Len(chord_intervals) THEN ValueError
    ELSE NoError

\* the exception __post_init__ raises, in the order of its checks, or NoError
post_init_raises(edo, interval_quality_list, chord_intervals, chord_notation_systems, note_name_systems) ==
    IF Len(interval_quality_list) # edo THEN ValueError
    ELSE IF \E k \in DOMAIN interval_quality_list :
                interval_quality_list[k] \notin DOMAIN quality_map THEN KeyError
    ELSE IF \E name \in DOMAIN chord_notation_systems :
                Len(chord_notation_systems[name]) # Len(chord_intervals) THEN ValueError
    ELSE IF \E name \in DOMAIN note_name_systems :
                Len(note_name_systems[name]) # edo THEN ValueError
    ELSE NoError

\* EDOSystem(...) followed by __post_init__: the record, or the exception raised
EDOSystem(edo, interval_quality_list, leading_targets, dominant_leading_intervals, chord_intervals, chord_notation_systems, note_name_systems, current_notation, current_note_names) ==
    IF post_init_raises(edo, interval_quality_list, chord_intervals, chord_notation_systems, note_name_systems) # NoError
    THEN post_init_raises(edo, interval_quality_list, chord_intervals, chord_notation_systems, note_name_systems)
    ELSE [edo |-> edo,
          interval_quality_list |-> interval_quality_list,
          leading_targets |-> leading_targets,
          dominant_leading_intervals |-> dominant_leading_intervals,
          chord_intervals |-> chord_intervals,
          chord_notation_systems |-> chord_notation_systems,
          note_name_systems |-> note_name_systems,
          current_notation |-> current_notation,
          current_note_names |-> current_note_names,
          interval_qualities |->
              [i \in 0..(edo - 1) |-> quality_map[interval_quality_list[i + 1]]],
          perfect_fifth |-> perfect_fifth(edo)]

----------------------------------------------------------------------------
(* Interval-set predicates; `intervals` is a set in its iteration order *)

\* the dict {name: intervals for name, intervals in zip(names, chord_intervals)}
\* in insertion order: a name met again keeps its place and takes the later
\* intervals
zipped_items(names, chord_intervals) ==
    LET n == IF Len(names) < Len(chord_intervals) THEN Len(names) ELSE Len(chord_intervals)
        first(k) == \A j \in 1..(k - 1) : names[j] # names[k]
        last(k) == CHOOSE j \in k..n : names[j] = names[k] /\ \A i \in (j + 1)..n : names[i] # names[k]
        kept == sorted({k \in 1..n : first(k)})
    IN  [i \in DOMAIN kept |-> <<names[kept[i]], chord_intervals[last(kept[i])]>>]

\* the chord_types property: the exception raised, and the items of the dict
chord_types(sys) ==
    IF sys.current_notation \notin DOMAIN sys.chord_notation_systems
    THEN [raised |-> KeyError, items |-> <<>>]
    ELSE [raised |-> NoError,
          items |-> zipped_items(sys.chord_notation_systems[sys.current_notation],
                                 sys.chord_intervals)]

\* get_note_names(): the exception raised, and the selected table
get_note_names(sys) ==
    IF sys.current_note_names \notin DOMAIN sys.note_name_systems
    THEN [raised |-> KeyError, names |-> <<>>]
    ELSE [raised |-> NoError, names |-> sys.note_name_systems[sys.current_note_names]]

get_quality(sys, interval) ==
    Lookup(sys.interval_qualities, PyMod(interval, sys.edo))

get_qualities(sys, intervals) ==
    {get_quality(sys, i) : i \in Elems(intervals)}

has_quality(sys, intervals, quality) ==
    quality \in get_qualities(sys, intervals)

RECURSIVE active_leading_first_only(_, _, _)
\* a loop that answers from the first LEADING member with a target it meets
active_leading_first_only(sys, intervals, k) ==
    LET intervals_mod == {PyMod(i, sys.edo) : i \in Elems(intervals)}
        interval == intervals[k]
        key == PyMod(interval, sys.edo)
    IN  IF k > Len(intervals) THEN FALSE
        ELSE IF /\ get_quality(sys, interval) = LEADING
                /\ key \in DOMAIN sys.leading_targets
             THEN PyMod(sys.leading_targets[key], sys.edo) \notin intervals_mod
        ELSE active_leading_first_only(sys, intervals, k + 1)

RECURSIVE active_leading_loop(_, _, _)
\* the for loop of has_active_leading from position k on
active_leading_loop(sys, intervals, k) ==
    LET intervals_mod == {PyMod(i, sys.edo) : i \in Elems(intervals)}
        interval == intervals[k]
        key == PyMod(interval, sys.edo)
    IN  IF k > Len(intervals) THEN FALSE
        ELSE IF /\ get_quality(sys, interval) = LEADING
                /\ key \in DOMAIN sys.leading_targets
                /\ PyMod(sys.leading_targets[key], sys.edo) \notin intervals_mod
             THEN TRUE
        ELSE active_leading_loop(sys, intervals, k + 1)

\* a test that takes any member with an unmet target, LEADING or not
active_leading_any_quality(sys, intervals) ==
    \E i \in Elems(intervals) :
        /\ PyMod(i, sys.edo) \in DOMAIN sys.leading_targets
        /\ PyMod(sys.leading_targets[PyMod(i, sys.edo)], sys.edo)
               \notin {PyMod(j, sys.edo) : j \in Elems(intervals)}

has_active_leading(sys, intervals) == active_leading_loop(sys, intervals, 1)

RECURSIVE dominant_leading_loop(_, _, _)
\* the for loop of has_dominant_leading from position k on
dominant_leading_loop(sys, intervals, k) ==
    LET intervals_mod == {PyMod(i, sys.edo) : i \in Elems(intervals)}
        interval == intervals[k]
        key == PyMod(interval, sys.edo)
    IN  IF k > Len(intervals) THEN FALSE
        ELSE IF /\ key \in sys.dominant_leading_intervals
                /\ key \in DOMAIN sys.leading_targets
                /\ PyMod(sys.leading_targets[key], sys.edo) \notin intervals_mod
             THEN TRUE
        ELSE dominant_leading_loop(sys, intervals, k + 1)

\* a test that asks the dominant-leading member to be tagged LEADING as well
dominant_leading_tagged(sys, intervals) ==
    \E i \in Elems(intervals) :
        /\ get_quality(sys, i) = LEADING
        /\ PyMod(i, sys.edo) \in sys.dominant_leading_intervals
        /\ PyMod(i, sys.edo) \in DOMAIN sys.leading_targets
        /\ PyMod(sys.leading_targets[PyMod(i, sys.edo)], sys.edo)
               \notin {PyMod(j, sys.edo) : j \in Elems(intervals)}

\* a test that looks for the target as written, not reduced mod edo
dominant_leading_raw_target(sys, intervals) ==
    \E i \in Elems(intervals) :
        /\ PyMod(i, sys.edo) \in sys.dominant_leading_intervals
        /\ PyMod(i, sys.edo) \in DOMAIN sys.leading_targets
        /\ sys.leading_targets[PyMod(i, sys.edo)]
               \notin {PyMod(j, sys.edo) : j \in Elems(intervals)}

has_dominant_leading(sys, intervals) == dominant_leading_loop(sys, intervals, 1)

----------------------------------------------------------------------------
(* The classifier *)

\* a test that looks at each pair in both directions
internal_stable_both_ways(sys, intervals) ==
    \E a \in Elems(intervals) : \E b \in Elems(intervals) :
        /\ a # b
        /\ PyMod(b - a, sys.edo) # 0
        /\ get_quality(sys, b - a) = STABLE

\* any(...) over the pairs i < j of the sorted members
has_internal_stable(sys, intervals) ==
    LET interval_list == sorted(Elems(intervals))
        stable_interval_values ==
            {i \in DOMAIN sys.interval_qualities :
                sys.interval_qualities[i] = STABLE /\ i # 0}
    IN  \E i \in 1..Len(interval_list) :
            \E j \in (i + 1)..Len(interval_list) :
                PyMod(interval_list[j] - interval_list[i], sys.edo)
                    \in stable_interval_values

\* a shell test that forgets the internal stable intervals
shell_ignoring_internal_stable(sys, intervals) ==
    /\ \E i \in Elems(intervals) : get_quality(sys, i) = STABLE
    /\ 0 \notin Elems(intervals)

\* a shell test that forgets to exclude the root
shell_ignoring_root(sys, intervals) ==
    /\ \E i \in Elems(intervals) : get_quality(sys, i) = STABLE
    /\ ~has_internal_stable(sys, intervals)

\* a shell test that asks for the designated perfect fifth itself
shell_of_perfect_fifth_only(sys, intervals) ==
    /\ \E i \in Elems(intervals) : PyMod(i, sys.edo) = sys.perfect_fifth
    /\ get_quality(sys, sys.perfect_fifth) = STABLE
    /\ 0 \notin Elems(intervals)
    /\ ~has_internal_stable(sys, intervals)

\* a shell test met only by a STABLE member that is the perfect fifth
shell_of_stable_fifth(sys, intervals) ==
    LET stable_intervals ==
            {i \in Elems(intervals) :
                get_quality(sys, i) = STABLE /\ PyMod(i, sys.edo) = sys.perfect_fifth}
        has_fifth_no_root ==
            Cardinality(stable_intervals) > 0 /\ 0 \notin Elems(intervals)
    IN  has_fifth_no_root /\ ~has_internal_stable(sys, intervals)

is_dominant_shell(sys, intervals) ==
    LET stable_intervals ==
            {i \in Elems(intervals) : get_quality(sys, i) = STABLE}
        has_fifth_no_root ==
            Cardinality(stable_intervals) > 0 /\ 0 \notin Elems(intervals)
    IN  has_fifth_no_root /\ ~has_internal_stable(sys, intervals)

\* the rules with one slip, named by `slip`
classify_with_slip(intervals, sys, slip) ==
    LET has_u == has_quality(sys, intervals, UNSTABLE)
        has_h == has_quality(sys, intervals, HOLLOW)
        has_o == has_quality(sys, intervals, ODD)
        has_active_l == has_active_leading(sys, intervals)
        has_dom_lead == has_dominant_leading(sys, intervals)
        intervals_mod == {PyMod(i, sys.edo) : i \in Elems(intervals)}
        root_in ==
            IF slip = "root_mod" THEN 0 \in intervals_mod ELSE 0 \in Elems(intervals)
        is_tonic ==
            /\ root_in
            /\ sys.perfect_fifth \in intervals_mod
            /\ (slip = "by_names" => sys.current_note_names = "default")
        is_mediant ==
            ~has_u /\ (slip = "mediant_default" \/ has_active_l \/ has_h \/ has_o)
    IN  IF KeyError \in get_qualities(sys, intervals) THEN KeyError
        ELSE IF slip = "stability_first" /\ is_tonic /\ ~has_dom_lead THEN TONIC
        ELSE IF has_dom_lead /\ (has_u \/ is_dominant_shell(sys, intervals))
             THEN DOMINANT
        ELSE IF has_u /\ ~has_dom_lead THEN PREDOMINANT
        ELSE IF slip = "tonic_first" /\ is_tonic THEN TONIC
        ELSE IF is_mediant THEN MEDIANT
        ELSE IF is_tonic THEN TONIC
        ELSE PREDOMINANT

\* TONIC tested before MEDIANT
classify_tonic_first(intervals, sys) == classify_with_slip(intervals, sys, "tonic_first")

\* the root looked for among the members reduced mod edo
classify_root_mod(intervals, sys) == classify_with_slip(intervals, sys, "root_mod")

\* MEDIANT for every chord without an UNSTABLE member
classify_mediant_default(intervals, sys) ==
    classify_with_slip(intervals, sys, "mediant_default")

\* the root with its fifth recognized before instability is looked at
classify_stability_first(intervals, sys) ==
    classify_with_slip(intervals, sys, "stability_first")

\* TONIC only under the default note names
classify_by_names(intervals, sys) == classify_with_slip(intervals, sys, "by_names")

classify_chord(intervals, sys) ==
    LET has_u == has_quality(sys, intervals, UNSTABLE)
        has_h == has_quality(sys, intervals, HOLLOW)
        has_o == has_quality(sys, intervals, ODD)
        has_active_l == has_active_leading(sys, intervals)
        has_dom_lead == has_dominant_leading(sys, intervals)
        intervals_mod == {PyMod(i, sys.edo) : i \in Elems(intervals)}
    IN  IF KeyError \in get_qualities(sys, intervals) THEN KeyError
        ELSE IF has_dom_lead /\ (has_u \/ is_dominant_shell(sys, intervals))
             THEN DOMINANT
        ELSE IF has_u /\ ~has_dom_lead THEN PREDOMINANT
        ELSE IF ~has_u /\ (has_active_l \/ has_h \/ has_o) THEN MEDIANT
        ELSE IF 0 \in Elems(intervals) /\ sys.perfect_fifth \in intervals_mod
             THEN TONIC
        ELSE PREDOMINANT

----------------------------------------------------------------------------
(* The analyzer *)

\* the dict {i: get_quality(i) for i in order}: its items in insertion order
quality_items(sys, order) == [k \in DOMAIN order |-> <<order[k], get_quality(sys, order[k])>>]

\* an analyzer that reports the members in the order the set iterates
analyze_unsorted(intervals, sys, name) ==
    LET qualities == quality_items(sys, intervals)
        quality_set == {qualities[k][2] : k \in DOMAIN qualities}
    IN  IF KeyError \in quality_set THEN [raised |-> KeyError]
        ELSE [name |-> name,
              intervals |-> intervals,
              qualities |-> qualities,
              has_unstable |-> UNSTABLE \in quality_set,
              has_active_leading |-> has_active_leading(sys, intervals),
              has_hollow |-> HOLLOW \in quality_set,
              has_odd |-> ODD \in quality_set,
              has_dominant_leading |-> has_dominant_leading(sys, intervals),
              function |-> classify_chord(intervals, sys)]

\* analyze_chord(intervals, system, name): the record, or the exception raised
analyze_chord(intervals, sys, name) ==
    LET qualities == quality_items(sys, sorted(Elems(intervals)))
        quality_set == {qualities[k][2] : k \in DOMAIN qualities}
    IN  IF KeyError \in quality_set THEN [raised |-> KeyError]
        ELSE [name |-> name,
              intervals |-> sorted(Elems(intervals)),
              qualities |-> qualities,
              has_unstable |-> UNSTABLE \in quality_set,
              has_active_leading |-> has_active_leading(sys, intervals),
              has_hollow |-> HOLLOW \in quality_set,
              has_odd |-> ODD \in quality_set,
              has_dominant_leading |-> has_dominant_leading(sys, intervals),
              function |-> classify_chord(intervals, sys)]

----------------------------------------------------------------------------
(* Default quality list by cents range *)

\* the if/elif chain for one step; cents = step * cent_per_step is a double
quality_of_step(edo, step) ==
    LET cents == float_cents(cent_per_step(edo), step)
        below(limit) == wide_less(cents, scaled(limit, cent_per_step(edo).p))
    IN  IF step = 0 THEN "s"
        ELSE IF cents # <<0, 0, 0, 0>> /\ below(160) THEN "o"
        ELSE IF ~below(160) /\ below(255) THEN "u"
        ELSE IF ~below(255) /\ below(445) THEN "m"
        ELSE IF ~below(445) /\ below(560) THEN "u"
        ELSE IF ~below(560) /\ below(665) THEN "o"
        ELSE IF ~below(665) /\ below(735) THEN "s"
        ELSE IF ~below(735) /\ below(850) THEN "l"
        ELSE IF ~below(850) /\ below(1040) THEN "h"
        ELSE IF ~below(1040) /\ below(1200) THEN "l"
        ELSE "s"

generate_interval_quality_list(edo) ==
    [k \in 1..edo |-> quality_of_step(edo, k - 1)]

----------------------------------------------------------------------------
(* The Tuning Systems and chords the model explores *)

\* the synthesized "numbers" note-name table: "0", "1", ..., "edo-1"
numbers_table(edo) == [k \in 1..edo |-> ToString(k - 1)]

\* note-name tables of a system that declares no table of its own
default_note_names(edo) ==
    ("numbers" :> numbers_table(edo)) @@ ("default" :> numbers_table(edo))

\* leading_targets with at most one entry; the target edo, which stands for
\* step 0, lies outside 0..edo-1
TargetMaps(edo) ==
    {<<>>} \cup {(k :> t) : k \in 0..(edo - 1), t \in 1..edo}

\* every small Tuning System: any quality list, at most one leading target,
\* at most one dominant-leading step
SmallSystems ==
    UNION {
        {EDOSystem(edo, iql, lt, dli, <<>>, ("full" :> <<>>),
                   default_note_names(edo), "full", "default") :
            iql \in [1..edo -> DOMAIN quality_map],
            lt \in TargetMaps(edo),
            dli \in {{}} \cup {{d} : d \in 0..(edo - 1)}} :
        edo \in 1..MaxEdo}

\* the 12-EDO reference system
EDO_12 ==
    EDOSystem(12, generate_interval_quality_list(12), (8 :> 7) @@ (11 :> 0), {11},
              <<>>, ("full" :> <<>>), default_note_names(12), "full", "default")

\* 12-EDO systems with the reference qualities and part of its leading data
Systems12 ==
    {EDOSystem(12, generate_interval_quality_list(12),
               [k \in keys |-> ((8 :> 7) @@ (11 :> 0))[k]], dli,
               <<>>, ("full" :> <<>>), default_note_names(12), "full", "numbers") :
        keys \in {{8}, {8, 11}}, dli \in {{8}, {8, 11}}}

\* a 12-EDO system built with leading data given by steps outside 0..11:
\* the entry 20 -> 7 stands for step 8, the target 12 for step 0
EDO_12_unreduced ==
    EDOSystem(12, generate_interval_quality_list(12),
              (20 :> 7) @@ (11 :> 12) @@ (5 :> 4), {5, 8, 11},
              <<>>, ("full" :> <<>>), default_note_names(12), "full", "default")

Systems == SmallSystems \cup {EDO_12, EDO_12_unreduced} \cup Systems12

\* the largest chords of the 12-EDO test suite are seventh chords
SeventhChordSize == 4

\* chords over more than one octave, and below zero
ShiftedChords12 == {{12, 16, 19}, {7, 14}, {2, 7}, {-5, -1}, {12, 19}, {19, 23}}

\* the chords a caller passes to the classifier of `sys`
Chords(sys) ==
    IF sys.edo = 12
    THEN {c \in SUBSET (0..11) : Cardinality(c) <= SeventhChordSize} \cup ShiftedChords12
    ELSE {c \in SUBSET ((-1)..sys.edo) : Cardinality(c) <= MaxChord}

----------------------------------------------------------------------------
(* The state machine *)

\* no Tuning System: none was chosen, or construction raised
NoSystem == [edo |-> 0]

\* no constructor call is under way
NoArgs == [edo |-> 0]

\* the constructor has not been called
NotBuilt == [raised |-> NoResult, system |-> NoSystem]

ClassifierIdle ==
    /\ system = NoSystem
    /\ chord = {}
    /\ result = NoResult
    /\ analysis = NoAnalysis

BuildIdle == args = NoArgs /\ built = NotBuilt

NumericIdle == numeric_edo = 0 /\ fifth = 0 /\ generated = <<>>

ParserIdle ==
    /\ document = <<>>
    /\ cursor = 0
    /\ edo_systems = <<>>
    /\ parse_error = NoError

\* no consumer call is under way
NoCall == [op |-> NoResult]

ConsumerIdle == call = NoCall /\ returned = NoResult

TypeOK ==
    /\ system \in Systems
    /\ chord \in Chords(system)
    /\ result \in Function \cup {KeyError, NoResult}
    /\ pc \in {"idle", "returned", "analyzed"}

Init ==
    /\ system \in Systems
    /\ chord = {}
    /\ result = NoResult
    /\ pc = "idle"
    /\ analysis = NoAnalysis
    /\ BuildIdle
    /\ NumericIdle
    /\ ParserIdle
    /\ ConsumerIdle

\* a caller passes a chord, in whatever order the set iterates, and gets the
\* Function back
Classify ==
    /\ pc = "idle"
    /\ \E c \in Chords(system) :
        \E intervals \in Orders(c) :
            /\ chord' = c
            /\ result' = classify_chord(intervals, system)
    /\ pc' = "returned"
    /\ UNCHANGED <<system, analysis, build_vars, numeric_vars, parser_vars, consumer_vars>>

\* a caller passes a chord to analyze_chord and gets the record back
Analyze ==
    /\ pc = "idle"
    /\ \E c \in Chords(system) :
        \E intervals \in Orders(c) :
            /\ chord' = c
            /\ analysis' = analyze_chord(intervals, system, "")
    /\ pc' = "analyzed"
    /\ UNCHANGED <<system, result, build_vars, numeric_vars, parser_vars, consumer_vars>>

\* the caller goes on to its next chord
NextChord ==
    /\ pc \in {"returned", "analyzed"}
    /\ pc' = "idle"
    /\ chord' = {}
    /\ result' = NoResult
    /\ analysis' = NoAnalysis
    /\ UNCHANGED <<system, build_vars, numeric_vars, parser_vars, consumer_vars>>

Next == Classify \/ NextChord

Spec == Init /\ [][Next]_vars

\* the callers of the analyzer
NextAnalysis == Analyze \/ NextChord

SpecAnalysis == Init /\ [][NextAnalysis]_vars

----------------------------------------------------------------------------
(* Construction of a Tuning System from arbitrary arguments *)

\* quality codes passed to the constructor: one the map knows, one it does
\* not, and the empty code a trailing comma leaves
ArgCodes == {"l", "x", ""}

\* a list of n entries, as a notation table or a note-name table
table_of(n) == [k \in 1..n |-> "-"]

\* the lists whose length is n or one off
NearLists(n) == {table_of(k) : k \in {j \in (n - 1)..(n + 1) : j >= 0}}

\* the dicts from some of `names` to lists of about n entries
Tables(names, n) == UNION {[chosen -> NearLists(n)] : chosen \in SUBSET names}

\* the constructor calls explored
BuildArgs ==
    UNION {
        [edo : {edo},
         interval_quality_list :
             UNION {[1..n -> ArgCodes] : n \in (edo - 1)..(edo + 1)},
         chord_intervals : {[k \in 1..n |-> <<0, k>>] : n \in 0..MaxShapes},
         chord_notation_systems : UNION {Tables({"full", "short"}, n) : n \in 0..MaxShapes},
         note_name_systems : Tables({"default", "numbers"}, edo)] :
        edo \in 1..MaxEdo}

InitBuild ==
    /\ pc = "idle"
    /\ ClassifierIdle
    /\ BuildIdle
    /\ NumericIdle
    /\ ParserIdle
    /\ ConsumerIdle

\* what EDOSystem(**a) ends with: the exception raised and the Tuning System
construct(a) ==
    LET raised == post_init_raises(a.edo, a.interval_quality_list, a.chord_intervals, a.chord_notation_systems, a.note_name_systems)
    IN  [raised |-> raised,
         system |->
             IF raised = NoError
             THEN EDOSystem(a.edo, a.interval_quality_list, <<>>, {},
                            a.chord_intervals, a.chord_notation_systems,
                            a.note_name_systems, "full", "default")
             ELSE NoSystem]

\* a caller calls the constructor: it returns the Tuning System or raises
Construct ==
    /\ pc = "idle"
    /\ \E a \in BuildArgs :
        /\ args' = a
        /\ built' = construct(a)
    /\ pc' = "built"
    /\ UNCHANGED <<classifier_vars, numeric_vars, parser_vars, consumer_vars>>

\* the caller goes on to its next constructor call
NextBuild ==
    /\ pc = "built"
    /\ pc' = "idle"
    /\ args' = NoArgs
    /\ built' = NotBuilt
    /\ UNCHANGED <<classifier_vars, numeric_vars, parser_vars, consumer_vars>>

NextConstruction == Construct \/ NextBuild

SpecBuild == InitBuild /\ [][NextConstruction]_vars

----------------------------------------------------------------------------
(* The numeric computations: the perfect fifth and the default quality list *)

\* large systems, one with two steps equally far from 702 cents and one with
\* a step of exactly 255 cents
LargeEdos == {500, 880}

NumericEdos == (1..MaxNumericEdo) \cup LargeEdos

InitNumeric ==
    /\ pc = "idle"
    /\ ClassifierIdle
    /\ BuildIdle
    /\ NumericIdle
    /\ ParserIdle
    /\ ConsumerIdle

\* __post_init__ derives the perfect fifth of an edo
ComputeFifth ==
    /\ pc = "idle"
    /\ \E e \in NumericEdos :
        /\ numeric_edo' = e
        /\ fifth' = perfect_fifth(e)
    /\ pc' = "fifth"
    /\ UNCHANGED <<generated, classifier_vars, build_vars, parser_vars, consumer_vars>>

\* a caller asks for the default quality list of an edo
Generate ==
    /\ pc = "idle"
    /\ \E e \in NumericEdos :
        /\ numeric_edo' = e
        /\ generated' = generate_interval_quality_list(e)
    /\ pc' = "generated"
    /\ UNCHANGED <<fifth, classifier_vars, build_vars, parser_vars, consumer_vars>>

\* the caller goes on to its next edo
NextEdo ==
    /\ pc \in {"fifth", "generated"}
    /\ pc' = "idle"
    /\ numeric_edo' = 0
    /\ fifth' = 0
    /\ generated' = <<>>
    /\ UNCHANGED <<classifier_vars, build_vars, parser_vars, consumer_vars>>

NextNumeric == ComputeFifth \/ Generate \/ NextEdo

SpecNumeric == InitNumeric /\ [][NextNumeric]_vars

----------------------------------------------------------------------------
(* The parser of the tuning description *)

(* A section of the document is kept as what the regular expressions of the *)
(* parser find in it.  An optional part is <<>> when absent and <<v>> when  *)
(* present.  A line of a fenced block is a record naming its form; a token  *)
(* is the sequence of its characters.                                       *)

digit_value ==
    ("0" :> 0) @@ ("1" :> 1) @@ ("2" :> 2) @@ ("3" :> 3) @@ ("4" :> 4) @@
    ("5" :> 5) @@ ("6" :> 6) @@ ("7" :> 7) @@ ("8" :> 8) @@ ("9" :> 9)

\* int(token) returns: the token is a run of decimal digits
is_int(token) ==
    token # <<>> /\ \A k \in DOMAIN token : token[k] \in DOMAIN digit_value

RECURSIVE int_value(_)
\* int(token) of a run of decimal digits
int_value(token) ==
    IF token = <<>> THEN 0
    ELSE 10 * int_value(SubSeq(token, 1, Len(token) - 1)) + digit_value[token[Len(token)]]

\* re.match(r'(\d+)', token): the longest run of digits the token starts with
digit_prefix(token) ==
    LET n == CHOOSE k \in 0..Len(token) :
                /\ \A j \in 1..k : token[j] \in DOMAIN digit_value
                /\ (k < Len(token) => token[k + 1] \notin DOMAIN digit_value)
    IN  SubSeq(token, 1, n)

\* one line of the Leading Targets block: only a line with a colon is read
leading_target_line(before, line) ==
    IF before.raised # NoError THEN before
    ELSE IF line.kind # "pair" THEN before
    ELSE IF ~is_int(line.key) \/ ~is_int(line.val)
         THEN [raised |-> ValueError, leading_targets |-> <<>>]
    ELSE [raised |-> NoError,
          leading_targets |->
              (int_value(line.key) :> int_value(line.val)) @@ before.leading_targets]

RECURSIVE parse_leading_targets(_)
\* the Leading Targets block, line by line
parse_leading_targets(lines) ==
    IF lines = <<>> THEN [raised |-> NoError, leading_targets |-> <<>>]
    ELSE leading_target_line(parse_leading_targets(SubSeq(lines, 1, Len(lines) - 1)),
                             lines[Len(lines)])

\* the Dominant Leading Intervals block: the leading digits of each line that
\* is neither blank nor a comment, when it starts with a digit
parse_dominant_leading(lines) ==
    {int_value(digit_prefix(lines[k].token)) :
        k \in {j \in DOMAIN lines :
                  lines[j].kind = "token" /\ digit_prefix(lines[j].token) # <<>>}}

\* one line of the Chord Intervals block: a tuple of integers, unless the
\* line is blank once its comment is removed
chord_interval_line(before, line) ==
    IF before.raised # NoError THEN before
    ELSE IF line.kind # "tuple" THEN before
    ELSE IF \E k \in DOMAIN line.tokens : ~is_int(line.tokens[k])
         THEN [raised |-> ValueError, chord_intervals |-> <<>>]
    ELSE [raised |-> NoError,
          chord_intervals |->
              Append(before.chord_intervals,
                     [k \in DOMAIN line.tokens |-> int_value(line.tokens[k])])]

RECURSIVE parse_chord_intervals(_)
\* the Chord Intervals block, line by line
parse_chord_intervals(lines) ==
    IF lines = <<>> THEN [raised |-> NoError, chord_intervals |-> <<>>]
    ELSE chord_interval_line(parse_chord_intervals(SubSeq(lines, 1, Len(lines) - 1)),
                             lines[Len(lines)])

\* a parser that always writes its own "numbers" table
always_numbers(note_name_systems, edo_num) ==
    ("numbers" :> numbers_table(edo_num)) @@ note_name_systems

\* the note-name tables, with "numbers" synthesized when the section has none
with_numbers(note_name_systems, edo_num) ==
    IF "numbers" \notin DOMAIN note_name_systems
    THEN ("numbers" :> numbers_table(edo_num)) @@ note_name_systems
    ELSE note_name_systems

\* the end of the loop body: the first exception raised by the blocks or by
\* the constructor, or the Tuning System with what the blocks gave
section_outcome(leading, chords, made, dominant_leading_intervals, current_note_names) ==
    IF leading.raised # NoError THEN [raised |-> leading.raised, system |-> NoSystem]
    ELSE IF chords.raised # NoError THEN [raised |-> chords.raised, system |-> NoSystem]
    ELSE IF made.raised # NoError THEN made
    ELSE [raised |-> NoError,
          system |->
              [made.system EXCEPT
                  !.leading_targets = leading.leading_targets,
                  !.dominant_leading_intervals = dominant_leading_intervals,
                  !.current_note_names = current_note_names]]

\* the body of the loop for a section with a heading and a quality list:
\* the exception raised, and the Tuning System built
section_system(section) ==
    section_outcome(
        parse_leading_targets(section.leading_lines),
        parse_chord_intervals(section.chord_lines),
        construct([edo |-> section.heading[1],
                   interval_quality_list |-> section.quality_block[1],
                   chord_intervals |->
                       parse_chord_intervals(section.chord_lines).chord_intervals,
                   chord_notation_systems |-> section.chord_notation,
                   note_name_systems |->
                       with_numbers(section.note_names, section.heading[1])]),
        parse_dominant_leading(section.dominant_lines),
        IF section.current_note_names = <<>> THEN "default"
        ELSE section.current_note_names[1])

\* a parser that passes over a section whose construction fails
registered_unless_failed(made, edo_num, registry) ==
    IF made.raised # NoError THEN [raised |-> NoError, edo_systems |-> registry]
    ELSE [raised |-> NoError, edo_systems |-> (edo_num :> made.system) @@ registry]

\* a parser that keeps the first Tuning System registered under an edo
registered_first(made, edo_num, registry) ==
    IF made.raised # NoError THEN [raised |-> made.raised, edo_systems |-> registry]
    ELSE [raised |-> NoError, edo_systems |-> registry @@ (edo_num :> made.system)]

\* the registry after a section that gave `made`
registered(made, edo_num, registry) ==
    IF made.raised # NoError THEN [raised |-> made.raised, edo_systems |-> registry]
    ELSE [raised |-> NoError, edo_systems |-> (edo_num :> made.system) @@ registry]

\* a parser that refuses a section without a quality list
parse_section_strict(section, registry) ==
    IF section.heading = <<>> THEN [raised |-> NoError, edo_systems |-> registry]
    ELSE IF section.quality_block = <<>> THEN [raised |-> ValueError, edo_systems |-> registry]
    ELSE registered(section_system(section), section.heading[1], registry)

\* one pass of the loop over the sections: the exception raised, and the
\* registry after the section
parse_section(section, registry) ==
    IF section.heading = <<>> THEN [raised |-> NoError, edo_systems |-> registry]
    ELSE IF section.quality_block = <<>> THEN [raised |-> NoError, edo_systems |-> registry]
    ELSE registered(section_system(section), section.heading[1], registry)

\* tokens of a line: an integer, and two tokens that are no integers
Tokens == {<<"1">>, <<"1", "x">>, <<"x", "1">>}

\* a section with a heading, a quality list of the right length, and nothing
\* else
plain_section(edo) ==
    [heading |-> <<edo>>,
     current_note_names |-> <<>>,
     quality_block |-> <<generate_interval_quality_list(edo)>>,
     leading_lines |-> <<>>,
     dominant_lines |-> <<>>,
     chord_lines |-> <<>>,
     chord_notation |-> <<>>,
     note_names |-> <<>>]

\* the sections any number of which a document holds: unrecognized, without
\* quality list, plain, and plain with a "numbers" table of its own
CoreSections ==
    {[plain_section(MaxEdo) EXCEPT !.heading = <<>>]}
    \cup {[plain_section(e) EXCEPT !.quality_block = <<>>] : e \in 1..MaxEdo}
    \cup {plain_section(e) : e \in 1..MaxEdo}
    \cup {[plain_section(e) EXCEPT !.note_names = ("numbers" :> table_of(e))] : e \in 1..MaxEdo}

\* the sections a document holds at most one of: a quality list of the wrong
\* length, and plain sections with one more label, line or table
VariedSections ==
    {[plain_section(MaxEdo) EXCEPT !.quality_block = <<<<"s">> \o @[1]>>]}
    \cup {[plain_section(MaxEdo) EXCEPT !.current_note_names = <<"numbers">>]}
    \cup {[plain_section(MaxEdo) EXCEPT
              !.leading_lines = <<[kind |-> "pair", key |-> t, val |-> <<"1">>]>>] :
            t \in Tokens}
    \cup {[plain_section(MaxEdo) EXCEPT
              !.leading_lines = <<[kind |-> "pair", key |-> <<"1">>, val |-> t]>>] :
            t \in Tokens}
    \cup {[plain_section(MaxEdo) EXCEPT !.leading_lines = <<[kind |-> "nocolon"]>>]}
    \cup {[plain_section(MaxEdo) EXCEPT
              !.dominant_lines = <<[kind |-> "token", token |-> t]>>] : t \in Tokens}
    \cup {[plain_section(MaxEdo) EXCEPT !.dominant_lines = <<[kind |-> "comment"]>>]}
    \cup {[plain_section(MaxEdo) EXCEPT
              !.chord_lines = <<[kind |-> "tuple", tokens |-> <<<<"0">>, t>>]>>] :
            t \in Tokens}
    \cup {[plain_section(MaxEdo) EXCEPT !.chord_lines = <<[kind |-> "blank"]>>]}
    \cup {[plain_section(MaxEdo) EXCEPT !.note_names = (name :> table_of(n))] :
            name \in {"numbers", "default"}, n \in {MaxEdo - 1, MaxEdo}}
    \cup {[plain_section(MaxEdo) EXCEPT
              !.chord_lines = [k \in 1..n |-> [kind |-> "tuple", tokens |-> <<<<"0">>, <<"1">>>>]],
              !.chord_notation = (name :> table_of(1))] :
            name \in {"full", "short"}, n \in {0, 1}}

Sections == CoreSections \cup VariedSections

\* the documents parsed: up to MaxSections sections, at most one of them varied
Documents ==
    UNION {{d \in [1..n -> Sections] :
                Cardinality({k \in 1..n : d[k] \in VariedSections \ CoreSections}) <= 1} :
            n \in 0..MaxSections}

InitParser ==
    /\ pc = "idle"
    /\ ClassifierIdle
    /\ BuildIdle
    /\ NumericIdle
    /\ ParserIdle
    /\ ConsumerIdle

\* parse_edo_data_file reads the file and splits it into sections
Open ==
    /\ pc = "idle"
    /\ \E d \in Documents : document' = d
    /\ cursor' = 1
    /\ edo_systems' = <<>>
    /\ parse_error' = NoError
    /\ pc' = "parsing"
    /\ UNCHANGED <<classifier_vars, build_vars, numeric_vars, consumer_vars>>

\* one pass of the loop; an exception ends the call without a registry
ParseSection ==
    /\ pc = "parsing"
    /\ cursor <= Len(document)
    /\ \E pass \in {parse_section(document[cursor], edo_systems)} :
        IF pass.raised # NoError
        THEN /\ pc' = "raised"
             /\ parse_error' = pass.raised
             /\ edo_systems' = <<>>
             /\ UNCHANGED cursor
        ELSE /\ pc' = "parsing"
             /\ edo_systems' = pass.edo_systems
             /\ cursor' = cursor + 1
             /\ UNCHANGED parse_error
    /\ UNCHANGED <<document, classifier_vars, build_vars, numeric_vars, consumer_vars>>

\* the loop is over: the registry is returned
Return ==
    /\ pc = "parsing"
    /\ cursor > Len(document)
    /\ pc' = "parsed"
    /\ UNCHANGED <<parser_vars, classifier_vars, build_vars, numeric_vars, consumer_vars>>

\* the caller goes on to its next document
NextDocument ==
    /\ pc \in {"parsed", "raised"}
    /\ pc' = "idle"
    /\ document' = <<>>
    /\ cursor' = 0
    /\ edo_systems' = <<>>
    /\ parse_error' = NoError
    /\ UNCHANGED <<classifier_vars, build_vars, numeric_vars, consumer_vars>>

NextParser == Open \/ ParseSection \/ Return \/ NextDocument

SpecParser == InitParser /\ [][NextParser]_vars

----------------------------------------------------------------------------
(* The consumers of a built registry *)

\* the functions a consumer calls on a Tuning System of the registry
Ops ==
    {"get_quality", "get_qualities", "has_quality", "has_active_leading",
     "has_dominant_leading", "classify_chord", "analyze_chord"}

\* a call that reduces the collection it was handed mod edo, in place
call_outcome_reducing(op, sys, intervals, quality) ==
    [returned |->
        CASE op = "get_quality" -> get_quality(sys, intervals[1])
          [] op = "get_qualities" -> get_qualities(sys, intervals)
          [] op = "has_quality" -> has_quality(sys, intervals, quality)
          [] op = "has_active_leading" -> has_active_leading(sys, intervals)
          [] op = "has_dominant_leading" -> has_dominant_leading(sys, intervals)
          [] op = "classify_chord" -> classify_chord(intervals, sys)
          [] op = "analyze_chord" -> analyze_chord(intervals, sys, ""),
     system |-> sys,
     intervals |-> [k \in DOMAIN intervals |-> PyMod(intervals[k], sys.edo)]]

\* what a call leaves: the value returned, and the Tuning System and the
\* collection it was handed as they are after the call.  No statement of the
\* seven functions assigns to a field of the system or changes the
\* collection: the comprehensions and sorted() build new objects.
call_outcome(op, sys, intervals, quality) ==
    [returned |->
        CASE op = "get_quality" -> get_quality(sys, intervals[1])
          [] op = "get_qualities" -> get_qualities(sys, intervals)
          [] op = "has_quality" -> has_quality(sys, intervals, quality)
          [] op = "has_active_leading" -> has_active_leading(sys, intervals)
          [] op = "has_dominant_leading" -> has_dominant_leading(sys, intervals)
          [] op = "classify_chord" -> classify_chord(intervals, sys)
          [] op = "analyze_chord" -> analyze_chord(intervals, sys, ""),
     system |-> sys,
     intervals |-> intervals]

\* the chords a consumer passes in a call
CallChords(sys) == {c \in Chords(sys) : Cardinality(c) <= MaxChord}

\* the Tuning Systems a consumer holds: the 12-EDO systems
CallSystems == {EDO_12, EDO_12_unreduced} \cup Systems12

\* the registry has been built and the consumer holds one of its systems
InitCalls ==
    /\ pc = "idle"
    /\ system \in CallSystems
    /\ chord = {}
    /\ result = NoResult
    /\ analysis = NoAnalysis
    /\ BuildIdle
    /\ NumericIdle
    /\ document = <<>>
    /\ cursor = 0
    /\ edo_systems = (system.edo :> system)
    /\ parse_error = NoError
    /\ ConsumerIdle

\* the consumer calls one of the functions on a chord (get_quality: on one
\* step) and gets its value back
Call ==
    /\ pc = "idle"
    /\ \E op \in Ops :
        \E c \in {x \in CallChords(system) : op = "get_quality" => Cardinality(x) = 1} :
            \E intervals \in Orders(c) :
                \E quality \in (IF op = "has_quality" THEN Quality ELSE {NoResult}) :
                    \E out \in {call_outcome(op, system, intervals, quality)} :
                        /\ call' = [op |-> op, intervals |-> intervals, quality |-> quality]
                        /\ returned' = out.returned
                        /\ system' = out.system
                        /\ chord' = Elems(out.intervals)
    /\ pc' = "called"
    /\ UNCHANGED <<result, analysis, build_vars, numeric_vars, parser_vars>>

\* the consumer goes on to its next call
NextCall ==
    /\ pc = "called"
    /\ pc' = "idle"
    /\ chord' = {}
    /\ call' = NoCall
    /\ returned' = NoResult
    /\ UNCHANGED <<system, result, analysis, build_vars, numeric_vars, parser_vars>>

NextCalls == Call \/ NextCall

SpecCalls == InitCalls /\ [][NextCalls]_vars

----------------------------------------------------------------------------
(* The table builders *)

\* the functions that build a full table of a Tuning System
Builders == {"print_triad_table", "run_comprehensive_chromatic_tests", "generate_html_table"}

\* chord shapes of the tabulated systems: a triad, a shape with offsets
\* outside 0..edo-1, and the bare root
TableShapes == {<<0, 4, 7>>, <<-1, 13>>, <<0>>}

\* names of chord shapes; two shapes can bear the same name
ShapeNames == {"a", "b"}

\* the lists of up to n chord shapes
ShapeLists(n) == UNION {[1..k -> TableShapes] : k \in 0..n}

\* the Tuning Systems tabulated: the default quality list, the reference
\* leading data in 12-EDO, one notation table, with or without a 'default'
\* note-name table
TableSystems ==
    UNION {
        {EDOSystem(edo, generate_interval_quality_list(edo),
                   IF edo = 12 THEN (8 :> 7) @@ (11 :> 0) ELSE <<>>,
                   IF edo = 12 THEN {11} ELSE {},
                   shapes, (notation :> names), note_names, "full", "default") :
            notation \in {"full", "short"},
            names \in [1..Len(shapes) -> ShapeNames],
            note_names \in {default_note_names(edo), ("numbers" :> numbers_table(edo))}} :
        edo \in {MaxEdo, 12}, shapes \in ShapeLists(MaxShapes + 1)}

\* the chord of a cell with the offsets taken as they are
shifted_unreduced(sys, root, chord_intervals) ==
    {root + chord_intervals[k] : k \in DOMAIN chord_intervals}

\* {(root + i) % system.edo for i in chord_intervals}
shifted_chord(sys, root, chord_intervals) ==
    {PyMod(root + chord_intervals[k], sys.edo) : k \in DOMAIN chord_intervals}

\* get_root_names(system.edo, system): the exception it raises; only 12-EDO
\* has root names that do not come from the note-name table
root_names_raise(sys) ==
    IF sys.edo = 12 THEN NoError ELSE get_note_names(sys).raised

\* the exception a builder raises before it hands over its first chord
raises_before_cells(op, sys) ==
    IF root_names_raise(sys) # NoError THEN root_names_raise(sys)
    ELSE IF op = "generate_html_table" THEN get_note_names(sys).raised
    ELSE IF chord_types(sys).raised # NoError THEN chord_types(sys).raised
    ELSE IF op = "print_triad_table" /\ chord_types(sys).items = <<>> THEN ValueError
    ELSE NoError

\* the exception a builder raises after its last chord
raises_after_cells(op, sys) ==
    IF op = "generate_html_table" THEN chord_types(sys).raised ELSE NoError

\* the shapes the inner loop of a builder runs over: the values of
\* chord_types, or chord_intervals itself
table_shapes(op, sys) ==
    IF op = "generate_html_table" THEN sys.chord_intervals
    ELSE [k \in DOMAIN chord_types(sys).items |-> chord_types(sys).items[k][2]]

\* the loops have a further (root, shape) pair after the position `at`
has_next_cell(at, sys) ==
    /\ table_shapes(at.op, sys) # <<>>
    /\ (at.shape < Len(table_shapes(at.op, sys)) \/ at.root + 1 < sys.edo)

\* the position after `at` in the nested loops
next_cell(at, sys) ==
    IF at.shape < Len(table_shapes(at.op, sys))
    THEN [at EXCEPT !.shape = at.shape + 1]
    ELSE [at EXCEPT !.root = at.root + 1, !.shape = 1]

InitTable ==
    /\ pc = "idle"
    /\ system \in TableSystems
    /\ chord = {}
    /\ result = NoResult
    /\ analysis = NoAnalysis
    /\ BuildIdle
    /\ NumericIdle
    /\ ParserIdle
    /\ ConsumerIdle

\* a builder is called: it computes the root names and its headers, or raises
BeginTable ==
    /\ pc = "idle"
    /\ \E op \in Builders :
        /\ call' = [op |-> op, root |-> 0, shape |-> 0]
        /\ pc' = IF raises_before_cells(op, system) # NoError THEN "table_failed" ELSE "table"
    /\ UNCHANGED <<returned, classifier_vars, build_vars, numeric_vars, parser_vars>>

\* one pass of the inner loop: the chord of the cell is built and handed to
\* the classifier, or by run_comprehensive_chromatic_tests to the analyzer
TableCell ==
    /\ pc = "table"
    /\ has_next_cell(call, system)
    /\ call' = next_cell(call, system)
    /\ \E c \in {shifted_chord(system, next_cell(call, system).root,
                                 table_shapes(call.op, system)[next_cell(call, system).shape])} :
        \E intervals \in Orders(c) :
            /\ chord' = c
            /\ IF call.op = "run_comprehensive_chromatic_tests"
               THEN analysis' = analyze_chord(intervals, system, "") /\ result' = NoResult
               ELSE result' = classify_chord(intervals, system) /\ analysis' = NoAnalysis
    /\ pc' = "table"
    /\ UNCHANGED <<system, returned, build_vars, numeric_vars, parser_vars>>

\* the loops are over: the builder formats what it collected, or raises
FinishTable ==
    /\ pc = "table"
    /\ ~has_next_cell(call, system)
    /\ pc' = IF raises_after_cells(call.op, system) # NoError THEN "table_failed" ELSE "table_built"
    /\ UNCHANGED <<classifier_vars, consumer_vars, build_vars, numeric_vars, parser_vars>>

\* the caller goes on to its next table
NextTable ==
    /\ pc \in {"table_built", "table_failed"}
    /\ pc' = "idle"
    /\ chord' = {}
    /\ result' = NoResult
    /\ analysis' = NoAnalysis
    /\ call' = NoCall
    /\ UNCHANGED <<system, returned, build_vars, numeric_vars, parser_vars>>

NextTables == BeginTable \/ TableCell \/ FinishTable \/ NextTable

SpecTable == InitTable /\ [][NextTables]_vars

----------------------------------------------------------------------------
(* The specification's notions, stated over the chord as a set *)

\* a call has returned and its Function is in `result`
Returned == pc = "returned"

Residues(sys, c) == {m % sys.edo : m \in c}

StepQuality(sys, m) == quality_map[sys.interval_quality_list[(m % sys.edo) + 1]]

ContainsQuality(sys, c, q) == \E m \in c : StepQuality(sys, m) = q

\* member m has a leading target that no member is congruent to
Unresolved(sys, c, m) ==
    /\ (m % sys.edo) \in DOMAIN sys.leading_targets
    /\ (sys.leading_targets[m % sys.edo] % sys.edo) \notin Residues(sys, c)

ActiveLeading(sys, c) ==
    \E m \in c : StepQuality(sys, m) = LEADING /\ Unresolved(sys, c, m)

DominantLeading(sys, c) ==
    \E m \in c :
        (m % sys.edo) \in sys.dominant_leading_intervals /\ Unresolved(sys, c, m)

InternalStable(sys, c) ==
    \E a \in c : \E b \in c :
        /\ a < b
        /\ \E st \in 1..(sys.edo - 1) :
            StepQuality(sys, st) = STABLE /\ (b - a) % sys.edo = st

DominantShell(sys, c) ==
    /\ ContainsQuality(sys, c, STABLE)
    /\ 0 \notin c
    /\ ~InternalStable(sys, c)

FiveRules(sys, c) ==
    IF DominantLeading(sys, c)
       /\ (ContainsQuality(sys, c, UNSTABLE) \/ DominantShell(sys, c))
    THEN DOMINANT
    ELSE IF ContainsQuality(sys, c, UNSTABLE) /\ ~DominantLeading(sys, c)
    THEN PREDOMINANT
    ELSE IF /\ ~ContainsQuality(sys, c, UNSTABLE)
            /\ \/ ActiveLeading(sys, c)
               \/ ContainsQuality(sys, c, HOLLOW)
               \/ ContainsQuality(sys, c, ODD)
    THEN MEDIANT
    ELSE IF 0 \in c /\ sys.perfect_fifth \in Residues(sys, c)
    THEN TONIC
    ELSE PREDOMINANT

----------------------------------------------------------------------------
(* Claims *)

\* C1: whatever the chord and the Tuning System, the Function returned is the
\* one the ordered five-rule procedure gives, the first matching rule winning.
C1_FiveRulesInOrder == Returned => result = FiveRules(system, chord)

\* C1 witness: a chord with the root and the perfect fifth that rule 3 takes
\* before rule 4 is reached.
C1_Witness ==
    /\ Returned
    /\ 0 \in chord
    /\ system.perfect_fifth \in Residues(system, chord)
    /\ result = MEDIANT

\* C2: for a nonempty chord the call returns one of the four Functions, and
\* every call with the same chord and system (whatever order the set iterates
\* in) returns that same Function.
C2_TotalAndDeterministic ==
    (Returned /\ chord # {}) =>
        /\ result \in Function
        /\ \A intervals \in Orders(chord) : classify_chord(intervals, system) = result

\* C2 witness: a chord with two LEADING members, one resolved and one not.
C2_Witness ==
    /\ Returned
    /\ result \in Function
    /\ \E a \in chord : \E b \in chord :
        /\ StepQuality(system, a) = LEADING /\ Unresolved(system, chord, a)
        /\ StepQuality(system, b) = LEADING
        /\ (b % system.edo) \in DOMAIN system.leading_targets
        /\ ~Unresolved(system, chord, b)

\* the chords got from c by moving one member by one octave up or down
OctaveShifts(sys, c) ==
    {(c \ {x}) \cup {x + k * sys.edo} : x \in c, k \in {-1, 1}}

\* C3: the Function depends only on the members' residues mod edo: moving a
\* member by a whole number of octaves leaves the Function unchanged.
C3_ResiduesOnly ==
    Returned =>
        \A c \in OctaveShifts(system, chord) :
            classify_chord(sorted(c), system) = result

\* C4: the eight literal scenarios of the 12-EDO reference system.
C4_ReferenceScenarios ==
    (Returned /\ system = EDO_12) =>
        /\ (chord = {0, 4, 7} => result = TONIC)
        /\ (chord = {2, 5, 9} => result = PREDOMINANT)
        /\ (chord = {4, 7, 11} => result = MEDIANT)
        /\ (chord = {7, 11, 2} => result = DOMINANT)
        /\ (chord = {9, 0, 4} => result = MEDIANT)
        /\ (chord = {11, 2, 5} => result = DOMINANT)
        /\ (chord = {0, 4, 7, 11} => result = TONIC)
        /\ (chord = {7, 11, 2, 5} => result = DOMINANT)

\* C4 witness: iii (E-G-B) of the reference system has been classified.
C4_Witness == Returned /\ system = EDO_12 /\ chord = {4, 7, 11}

\* C5: TONIC is returned only for a chord that literally contains 0, contains
\* the perfect fifth mod edo, and has no UNSTABLE, HOLLOW or ODD member and no
\* active leading interval; {0,4} in 12-EDO is not TONIC.
C5_TonicOnlyIf ==
    Returned =>
        /\ result = TONIC =>
            /\ 0 \in chord
            /\ system.perfect_fifth \in Residues(system, chord)
            /\ ~ContainsQuality(system, chord, UNSTABLE)
            /\ ~ContainsQuality(system, chord, HOLLOW)
            /\ ~ContainsQuality(system, chord, ODD)
            /\ ~ActiveLeading(system, chord)
        /\ (system.edo = 12 /\ chord = {0, 4}) => result # TONIC

\* C5 witness: a TONIC chord that holds a LEADING member, resolved.
C5_Witness ==
    /\ Returned
    /\ result = TONIC
    /\ ContainsQuality(system, chord, LEADING)
    /\ Cardinality(chord) >= 3

\* the precondition of C6: a dominant shell with an unresolved
\* dominant-leading interval
ShellWithDominantLeading ==
    /\ ContainsQuality(system, chord, STABLE)
    /\ 0 \notin chord
    /\ ~InternalStable(system, chord)
    /\ DominantLeading(system, chord)

\* C6: a chord with a STABLE member, without literal 0, without internal
\* stable interval and with an unresolved dominant-leading interval is
\* DOMINANT, also when it has no UNSTABLE member.
C6_ShellIsDominant == (Returned /\ ShellWithDominantLeading) => result = DOMINANT

\* C6 witness: {7,11} of the reference system, which has no UNSTABLE member.
C6_Witness ==
    /\ Returned
    /\ system = EDO_12
    /\ chord = {7, 11}
    /\ ShellWithDominantLeading
    /\ ~ContainsQuality(system, chord, UNSTABLE)

\* C7: a chord that literally contains 0 is DOMINANT only if it has an
\* UNSTABLE member together with an unresolved dominant-leading interval.
C7_RootNeverShell ==
    (Returned /\ 0 \in chord /\ result = DOMINANT) =>
        /\ ContainsQuality(system, chord, UNSTABLE)
        /\ DominantLeading(system, chord)

\* C7 witness: a chord with literal 0 that would be a shell but for the 0 (a
\* STABLE member, no internal stable interval, an unresolved dominant-leading
\* interval, no UNSTABLE member) and is not DOMINANT.
C7_Witness ==
    /\ Returned
    /\ 0 \in chord
    /\ ContainsQuality(system, chord, STABLE)
    /\ ~InternalStable(system, chord)
    /\ DominantLeading(system, chord)
    /\ ~ContainsQuality(system, chord, UNSTABLE)
    /\ result # DOMINANT

\* the Tuning Systems that differ from sys in presentation only
Represented(sys) ==
    {[sys EXCEPT !.current_notation = cn,
                 !.current_note_names = cnn,
                 !.chord_notation_systems = cns,
                 !.note_name_systems = nns] :
        cn \in {"full", "short"},
        cnn \in {"default", "numbers"},
        cns \in {("full" :> <<>>) @@ ("short" :> <<>>)},
        nns \in {("numbers" :> numbers_table(sys.edo))}}

\* C8: Tuning Systems that agree on edo, qualities, leading targets and
\* dominant-leading steps give the same Function, whatever their selected
\* notation, selected note names and tables.
C8_PresentationIndependent ==
    Returned =>
        \A other \in Represented(system) :
            classify_chord(sorted(chord), other) = result

\* C8 witness: a TONIC returned under note names other than the default.
C8_Witness ==
    /\ Returned
    /\ system.current_note_names = "numbers"
    /\ result = TONIC

\* the residue of m in 0..edo-1, found by search
ResidueOf(m, edo) ==
    CHOOSE r \in 0..(edo - 1) :
        \E q \in (-(Abs(m) + 1))..(Abs(m) + 1) : m = q * edo + r

\* C9: no member makes the classifier fail, and get_quality of any member,
\* negative or beyond edo, is the quality of its residue in 0..edo-1.
C9_NeverRaises ==
    Returned =>
        /\ result # KeyError
        /\ \A m \in chord :
            /\ get_quality(system, m) \in Quality
            /\ get_quality(system, m) =
                quality_map[system.interval_quality_list[ResidueOf(m, system.edo) + 1]]

\* C9 witness: a chord with a negative member and a member beyond edo.
C9_Witness ==
    /\ Returned
    /\ \E m \in chord : m < 0
    /\ \E m \in chord : m >= system.edo

\* C10: the empty chord is classified, without error, PREDOMINANT.
C10_EmptyChord == (Returned /\ chord = {}) => result = PREDOMINANT

\* C10 witness: the empty chord classified in a system with dominant-leading
\* data.
C10_Witness ==
    /\ Returned
    /\ chord = {}
    /\ system.dominant_leading_intervals # {}
    /\ result = PREDOMINANT

----------------------------------------------------------------------------
(* Claims about the interval-set predicates and the analyzer *)

\* analyze_chord has returned and its record is in `analysis`
Analyzed == pc = "analyzed"

\* C11: has_active_leading is true exactly when some member has LEADING
\* quality, has an entry in leading_targets, and that target mod edo is not
\* among the members mod edo.
C11_ActiveLeadingIff ==
    Analyzed =>
        (analysis.has_active_leading <=>
            \E m \in chord :
                /\ StepQuality(system, m) = LEADING
                /\ (m % system.edo) \in DOMAIN system.leading_targets
                /\ \A n \in chord :
                    n % system.edo # system.leading_targets[m % system.edo] % system.edo)

\* C11 witness: a chord whose only unmet target belongs to a member that is
\* not LEADING, next to a LEADING member whose target is met.
C11_Witness ==
    /\ Analyzed
    /\ ~analysis.has_active_leading
    /\ \E m \in chord : StepQuality(system, m) # LEADING /\ Unresolved(system, chord, m)
    /\ \E m \in chord :
        /\ StepQuality(system, m) = LEADING
        /\ (m % system.edo) \in DOMAIN system.leading_targets

\* the members whose residue is a dominant-leading step
DominantLeadingMembers(sys, c) == {m \in c : (m % sys.edo) \in sys.dominant_leading_intervals}

\* C12: has_dominant_leading is true exactly when some member whose residue is
\* a dominant-leading step has a leading target that no member is congruent
\* to; the member's Quality plays no part, and a dominant-leading step without
\* a leading target never triggers it.
C12_DominantLeadingIff ==
    Analyzed =>
        /\ analysis.has_dominant_leading <=>
            \E m \in DominantLeadingMembers(system, chord) : Unresolved(system, chord, m)
        /\ (\A m \in DominantLeadingMembers(system, chord) :
                (m % system.edo) \notin DOMAIN system.leading_targets)
            => ~analysis.has_dominant_leading

\* C12 witness: the flag raised by members that are not LEADING, in a chord
\* that also holds a dominant-leading step without a target.
C12_Witness ==
    /\ Analyzed
    /\ analysis.has_dominant_leading
    /\ \A m \in DominantLeadingMembers(system, chord) :
        Unresolved(system, chord, m) => StepQuality(system, m) # LEADING
    /\ \E m \in DominantLeadingMembers(system, chord) :
        (m % system.edo) \notin DOMAIN system.leading_targets

\* member m is congruent to the key of an entry whose target no member is
\* congruent to
UnresolvedModEdo(sys, c, m) ==
    \E k \in DOMAIN sys.leading_targets :
        /\ (m - k) % sys.edo = 0
        /\ \A n \in c : (n - sys.leading_targets[k]) % sys.edo # 0

\* C13: an entry k -> t of leading_targets, k and t any integers, applies to
\* every member congruent to k mod edo and is resolved exactly when some member
\* is congruent to t mod edo.
C13_TargetsModEdo ==
    Analyzed =>
        /\ analysis.has_active_leading <=>
            \E m \in chord :
                StepQuality(system, m) = LEADING /\ UnresolvedModEdo(system, chord, m)
        /\ analysis.has_dominant_leading <=>
            \E m \in DominantLeadingMembers(system, chord) :
                UnresolvedModEdo(system, chord, m)

\* C20: the record of analyze_chord holds the chord sorted ascending, the
\* members in ascending order each with its get_quality, the three quality
\* flags equal to has_quality, the two leading flags equal to the predicates
\* of the same name, and the Function classify_chord returns.
C20_AnalysisRecord ==
    Analyzed =>
        LET members == analysis.intervals
        IN  /\ Elems(members) = chord
            /\ Len(members) = Cardinality(chord)
            /\ \A k \in 1..(Len(members) - 1) : members[k] < members[k + 1]
            /\ Len(analysis.qualities) = Len(members)
            /\ \A k \in DOMAIN members :
                analysis.qualities[k] = <<members[k], get_quality(system, members[k])>>
            /\ \A intervals \in Orders(chord) :
                /\ analysis.has_unstable = has_quality(system, intervals, UNSTABLE)
                /\ analysis.has_hollow = has_quality(system, intervals, HOLLOW)
                /\ analysis.has_odd = has_quality(system, intervals, ODD)
                /\ analysis.has_active_leading = has_active_leading(system, intervals)
                /\ analysis.has_dominant_leading = has_dominant_leading(system, intervals)
                /\ analysis.function = classify_chord(intervals, system)

\* C20 witness: a record of a chord with members on both sides of the octave,
\* with both leading flags raised.
C20_Witness ==
    /\ Analyzed
    /\ Len(analysis.intervals) >= 2
    /\ analysis.intervals[1] < 0
    /\ analysis.has_active_leading
    /\ analysis.has_dominant_leading
    /\ analysis.function = DOMINANT

----------------------------------------------------------------------------
(* Claims about construction *)

\* the constructor has returned or raised
Built == pc = "built"

\* the arguments with the last entry of one table cut off
Truncations(a) ==
    {[a EXCEPT !.interval_quality_list = SubSeq(@, 1, Len(@) - 1)]}
    \cup {[a EXCEPT !.chord_notation_systems[name] = SubSeq(@, 1, Len(@) - 1)] :
            name \in {n \in DOMAIN a.chord_notation_systems : Len(a.chord_notation_systems[n]) > 0}}
    \cup {[a EXCEPT !.note_name_systems[name] = SubSeq(@, 1, Len(@) - 1)] :
            name \in DOMAIN a.note_name_systems}

\* what the constructor raises for the arguments a
RaisedFor(a) == post_init_raises(a.edo, a.interval_quality_list, a.chord_intervals, a.chord_notation_systems, a.note_name_systems)

\* C14: with quality codes that are all known, construction succeeds exactly
\* when the quality list has edo entries, every notation table has as many
\* entries as there are chord shapes and every note-name table has edo entries;
\* it fails with a validation error otherwise, and also after any one of the
\* tables of a valid call is truncated by one entry; a failed call produces no
\* Tuning System.
C14_ConstructionIffLengths ==
    (Built /\ \A k \in DOMAIN args.interval_quality_list :
                args.interval_quality_list[k] \in DOMAIN quality_map) =>
        LET sized ==
                /\ Len(args.interval_quality_list) = args.edo
                /\ \A name \in DOMAIN args.chord_notation_systems :
                    Len(args.chord_notation_systems[name]) = Len(args.chord_intervals)
                /\ \A name \in DOMAIN args.note_name_systems :
                    Len(args.note_name_systems[name]) = args.edo
        IN  /\ sized <=> built.raised = NoError
            /\ ~sized => built.raised = ValueError /\ built.system = NoSystem
            /\ sized =>
                /\ built.system.edo = args.edo
                /\ \A cut \in Truncations(args) : RaisedFor(cut) = ValueError

\* C14 witness: a valid call with two notation tables and two note-name
\* tables, each of which can be truncated.
C14_Witness ==
    /\ Built
    /\ built.raised = NoError
    /\ Cardinality(Truncations(args)) = 5

\* the six quality codes
SixCodes == {"s", "m", "h", "u", "l", "o"}

\* C30: when the quality list has edo entries and some entry is none of the
\* six codes (an empty entry left by a trailing comma, say) construction
\* fails and produces no Tuning System; every Tuning System constructed maps
\* each step 0..edo-1 to one of the six Quality values.
C30_UnknownCodeFails ==
    Built =>
        /\ (/\ Len(args.interval_quality_list) = args.edo
            /\ \E k \in DOMAIN args.interval_quality_list :
                args.interval_quality_list[k] \notin SixCodes)
            => (built.raised = KeyError /\ built.system = NoSystem)
        /\ built.raised = NoError =>
            /\ DOMAIN built.system.interval_qualities = 0..(args.edo - 1)
            /\ \A i \in 0..(args.edo - 1) :
                built.system.interval_qualities[i]
                    \in {STABLE, MODAL, HOLLOW, UNSTABLE, LEADING, ODD}

\* C30 witness: a call whose quality list has edo entries, the last one empty
\* and the others known, with tables that fit; it raised.
C30_Witness ==
    /\ Built
    /\ args.edo >= 2
    /\ Len(args.interval_quality_list) = args.edo
    /\ args.interval_quality_list[args.edo] = ""
    /\ \A k \in 1..(args.edo - 1) : args.interval_quality_list[k] \in SixCodes
    /\ \A name \in DOMAIN args.note_name_systems : Len(args.note_name_systems[name]) = args.edo
    /\ built.raised = KeyError
    /\ built.system = NoSystem

----------------------------------------------------------------------------
(* Claims about the numeric computations *)

\* |1200 * i - 702 * edo|, which is |i * 1200 / edo - 702| times edo
ExactDistance(edo, i) == Abs(OctaveCents * i - FifthCents * edo)

\* the lowest of the step indices of least exact distance
ExactFifth(edo) ==
    CHOOSE i \in 0..(edo - 1) :
        \A j \in 0..(edo - 1) :
            \/ ExactDistance(edo, i) < ExactDistance(edo, j)
            \/ (ExactDistance(edo, i) = ExactDistance(edo, j) /\ i <= j)

\* C15: for every edo >= 1 the perfect fifth derived at construction is the
\* step index in 0..edo-1 that minimizes |1200 * i - 702 * edo|, the lowest
\* one when several indices attain the minimum.
C15_FifthIsLowestNearest == pc = "fifth" => fifth = ExactFifth(numeric_edo)

\* the cents ranges and their codes: from (inclusive), to (exclusive), code
Buckets ==
    << <<0, 160, "o">>, <<160, 255, "u">>, <<255, 445, "m">>, <<445, 560, "u">>,
       <<560, 665, "o">>, <<665, 735, "s">>, <<735, 850, "l">>, <<850, 1040, "h">>,
       <<1040, 1200, "l">> >>

\* step > 0 lies in bucket b: from <= step * 1200 / edo < to
InBucket(edo, step, b) ==
    /\ Buckets[b][1] * edo <= step * OctaveCents
    /\ step * OctaveCents < Buckets[b][2] * edo

\* C19: the generated list has exactly edo codes, step 0 is 's', every step
\* > 0 has the code of the bucket containing step * 1200 / edo, and some
\* bucket contains it (the final else branch is never taken).
C19_GeneratedByBuckets ==
    pc = "generated" =>
        /\ Len(generated) = numeric_edo
        /\ generated[1] = "s"
        /\ \A step \in 1..(numeric_edo - 1) :
            \E b \in DOMAIN Buckets :
                InBucket(numeric_edo, step, b) /\ generated[step + 1] = Buckets[b][3]

----------------------------------------------------------------------------
(* Claims about the parser *)

\* the parser has returned its registry
Parsed == pc = "parsed"

\* the section has an 'EDO <integer>' heading
Recognized(section) == section.heading # <<>>

\* the section has a heading and an Interval Quality List block
Contributing(section) == Recognized(section) /\ section.quality_block # <<>>

\* the sections of the document that declare edo e and have a quality list
SectionsFor(e) ==
    {k \in DOMAIN document : Contributing(document[k]) /\ document[k].heading[1] = e}

\* C16: a section with a heading but no Interval Quality List block adds no
\* entry and does not make the parse fail: a parse fails only in a section
\* that has the block, and in the returned mapping the keys are the edos
\* declared by sections that have the block, each holding the Tuning System
\* of such a section.
C16_MissingBlockSkipped ==
    /\ pc = "raised" => Contributing(document[cursor])
    /\ Parsed =>
        /\ \A k \in DOMAIN document :
            (Recognized(document[k]) /\ ~Contributing(document[k])
                /\ document[k].heading[1] \in DOMAIN edo_systems)
            => SectionsFor(document[k].heading[1]) # {}
        /\ \A k \in DOMAIN document :
            Contributing(document[k]) =>
                /\ document[k].heading[1] \in DOMAIN edo_systems
                /\ \E j \in SectionsFor(document[k].heading[1]) :
                    edo_systems[document[k].heading[1]] = section_system(document[j]).system

\* C16 witness: a returned registry for a document whose first section
\* declares an edo without a quality list and whose second section is
\* complete, under another edo.
C16_Witness ==
    /\ Parsed
    /\ Len(document) = 2
    /\ Recognized(document[1]) /\ ~Contributing(document[1])
    /\ Contributing(document[2])
    /\ document[1].heading[1] # document[2].heading[1]
    /\ DOMAIN edo_systems = {document[2].heading[1]}

\* the token is a decimal integer
IsInteger(token) ==
    token # <<>> /\ \A k \in DOMAIN token : token[k] \in {"0", "1", "2", "3", "4", "5", "6", "7", "8", "9"}

\* some fenced block of the section holds a token that is no integer
Malformed(section) ==
    \/ \E k \in DOMAIN section.leading_lines :
        /\ section.leading_lines[k].kind = "pair"
        /\ ~(IsInteger(section.leading_lines[k].key) /\ IsInteger(section.leading_lines[k].val))
    \/ \E k \in DOMAIN section.dominant_lines :
        /\ section.dominant_lines[k].kind = "token"
        /\ ~IsInteger(section.dominant_lines[k].token)
    \/ \E k \in DOMAIN section.chord_lines :
        /\ section.chord_lines[k].kind = "tuple"
        /\ \E j \in DOMAIN section.chord_lines[k].tokens :
            ~IsInteger(section.chord_lines[k].tokens[j])

\* C17: a malformed integer token in the Leading Targets, Dominant Leading
\* Intervals or Chord Intervals block of a section makes the parse fail: no
\* registry is returned for a document with such a section.
C17_MalformedTokenFails ==
    Parsed => \A k \in DOMAIN document : Contributing(document[k]) => ~Malformed(document[k])

\* the decimal numerals "0", "1", ..., "edo-1" (edo <= 10)
Numerals(edo) == SubSeq(<<"0", "1", "2", "3", "4", "5", "6", "7", "8", "9">>, 1, edo)

\* the last section that declares edo e and has a quality list
LastSectionFor(e) == document[CHOOSE k \in SectionsFor(e) : \A j \in SectionsFor(e) : j <= k]

\* C18: every Tuning System returned has a note-name table "numbers": the one
\* its section supplies, unchanged, or else the numerals "0" ... "edo-1".
C18_NumbersTable ==
    Parsed =>
        \A e \in DOMAIN edo_systems :
            /\ "numbers" \in DOMAIN edo_systems[e].note_name_systems
            /\ edo_systems[e].note_name_systems["numbers"] =
                IF "numbers" \in DOMAIN LastSectionFor(e).note_names
                THEN LastSectionFor(e).note_names["numbers"]
                ELSE Numerals(e)

\* C18 witness: a registry with one system whose section supplies "numbers"
\* and one whose section supplies another table only.
C18_Witness ==
    /\ Parsed
    /\ \E e \in DOMAIN edo_systems :
        /\ "numbers" \in DOMAIN LastSectionFor(e).note_names
        /\ edo_systems[e].note_name_systems["numbers"] # Numerals(e)
    /\ \E e \in DOMAIN edo_systems :
        /\ DOMAIN LastSectionFor(e).note_names = {"default"}
        /\ edo_systems[e].note_name_systems["numbers"] = Numerals(e)

\* C27: in every Tuning System of a returned registry the selected note-name
\* table is a key of note_name_systems and the selected notation, always
\* 'full', is a key of chord_notation_systems, so that get_note_names and
\* chord_types do not fail.
C27_SelectedTablesExist ==
    Parsed =>
        \A e \in DOMAIN edo_systems :
            /\ edo_systems[e].current_note_names \in DOMAIN edo_systems[e].note_name_systems
            /\ edo_systems[e].current_notation = "full"
            /\ "full" \in DOMAIN edo_systems[e].chord_notation_systems
            /\ get_note_names(edo_systems[e]).raised = NoError
            /\ chord_types(edo_systems[e]).raised = NoError

\* the parser has raised
ParseFailed == pc = "raised"

\* the chord shapes the section declares
ShapeLines(section) == {k \in DOMAIN section.chord_lines : section.chord_lines[k].kind = "tuple"}

\* the tables of the section do not fit its edo and its chord shapes
FailsValidation(section) ==
    \/ Len(section.quality_block[1]) # section.heading[1]
    \/ \E name \in DOMAIN section.chord_notation :
        Len(section.chord_notation[name]) # Cardinality(ShapeLines(section))
    \/ \E name \in DOMAIN section.note_names :
        Len(section.note_names[name]) # section.heading[1]

\* C28: when the construction of the Tuning System of one section fails
\* validation the parse fails as a whole: no registry is returned for a
\* document with such a section, and a failed parse leaves no registry, the
\* Tuning Systems of earlier sections included.
C28_FailedSectionFailsParse ==
    /\ Parsed =>
        \A k \in DOMAIN document : Contributing(document[k]) => ~FailsValidation(document[k])
    /\ ParseFailed => edo_systems = <<>>

\* C28 witness: the parse failed in the second section, whose tables do not
\* fit, after a first section that built a Tuning System.
C28_Witness ==
    /\ ParseFailed
    /\ cursor = 2
    /\ Contributing(document[1])
    /\ section_system(document[1]).raised = NoError
    /\ Contributing(document[2])
    /\ FailsValidation(document[2])
    /\ parse_error = ValueError
    /\ edo_systems = <<>>

\* the edos declared by the sections that have a quality list
DeclaredEdos == {document[k].heading[1] : k \in {j \in DOMAIN document : Contributing(document[j])}}

\* C29: the returned registry has exactly one entry per edo declared by a
\* recognized section with a quality list, and the entry is the Tuning System
\* of the last such section of the document declaring that edo.
C29_OneEntryPerEdoLastWins ==
    Parsed =>
        /\ DOMAIN edo_systems = DeclaredEdos
        /\ \A e \in DeclaredEdos :
            /\ edo_systems[e] = section_system(LastSectionFor(e)).system
            /\ edo_systems[e].edo = e
            /\ edo_systems[e].interval_quality_list = LastSectionFor(e).quality_block[1]

\* C29 witness: two sections declare the same edo and build different Tuning
\* Systems; the registry holds the second.
C29_Witness ==
    /\ Parsed
    /\ Len(document) = 2
    /\ Contributing(document[1]) /\ Contributing(document[2])
    /\ document[1].heading = document[2].heading
    /\ section_system(document[1]).system # section_system(document[2]).system
    /\ DOMAIN edo_systems = {document[2].heading[1]}
    /\ edo_systems[document[2].heading[1]] = section_system(document[2]).system

----------------------------------------------------------------------------
(* Claims about the consumers of a built registry *)

\* a consumer's call has returned
Called == pc = "called"

CellHanded == pc = "table" /\ call.shape >= 1

\* C22: while a table is built the Tuning System is not modified, and the
\* chord of every cell is {(root + i) mod edo : i in the shape} for the root
\* in 0..edo-1 and the chord shape of the cell, so that all its members lie
\* in 0..edo-1.
C22_TableChordsShifted ==
    [][/\ system' = system
       /\ (pc = "table" /\ pc' = "table") =>
            /\ call'.root \in 0..(system.edo - 1)
            /\ \E k \in DOMAIN system.chord_intervals :
                /\ call'.op = "generate_html_table" => k = call'.shape
                /\ chord' = {(call'.root + system.chord_intervals[k][j]) % system.edo :
                                j \in DOMAIN system.chord_intervals[k]}
            /\ chord' \subseteq 0..(system.edo - 1)]_vars

\* C22 witness: run_comprehensive_chromatic_tests has handed the analyzer the
\* chord of a root other than 0 and a shape with offsets outside 0..edo-1.
C22_Witness ==
    /\ CellHanded
    /\ call.root > 0
    /\ call.op = "run_comprehensive_chromatic_tests"
    /\ table_shapes(call.op, system)[call.shape] = <<-1, 13>>
    /\ chord # {call.root - 1, call.root + 13}
    /\ analysis # NoAnalysis

----------------------------------------------------------------------------
(* Further claims about the classifier *)

\* C23: a chord with an UNSTABLE member is DOMINANT when it has an unresolved
\* dominant-leading interval and PREDOMINANT when it has none; it is never
\* MEDIANT or TONIC, whatever else it contains.
C23_UnstableDecides ==
    (Returned /\ ContainsQuality(system, chord, UNSTABLE)) =>
        /\ result = (IF DominantLeading(system, chord) THEN DOMINANT ELSE PREDOMINANT)
        /\ result \notin {MEDIANT, TONIC}

\* C23 witness: a chord with the root, the perfect fifth, a HOLLOW member and
\* an UNSTABLE member, classified PREDOMINANT.
C23_Witness ==
    /\ Returned
    /\ 0 \in chord
    /\ system.perfect_fifth \in Residues(system, chord)
    /\ ContainsQuality(system, chord, HOLLOW)
    /\ ContainsQuality(system, chord, UNSTABLE)
    /\ result = PREDOMINANT

\* the nonzero steps tagged STABLE
StableSteps(sys) == {st \in 1..(sys.edo - 1) : StepQuality(sys, st) = STABLE}

\* C24: the internal-stable-interval test takes each pair a < b of the raw
\* members and compares (b - a) mod edo alone with the nonzero STABLE steps,
\* never (a - b) mod edo; where 7 is the only nonzero STABLE step of 12-EDO,
\* {7,14} has an internal stable interval and {2,7} has none.
C24_InternalStableOnRawPairs ==
    Returned =>
        \A intervals \in Orders(chord) :
            /\ has_internal_stable(system, intervals) <=>
                \E a \in chord : \E b \in chord :
                    a < b /\ ((b - a) % system.edo) \in StableSteps(system)
            /\ (system.edo = 12 /\ StableSteps(system) = {7}) =>
                /\ chord = {7, 14} => has_internal_stable(system, intervals)
                /\ chord = {2, 7} => ~has_internal_stable(system, intervals)

\* C24 witness: {2,7} in 12-EDO, whose complementary difference 7 is STABLE
\* while its difference 5 is not.
C24_Witness ==
    /\ Returned
    /\ system.edo = 12
    /\ StableSteps(system) = {7}
    /\ chord = {2, 7}
    /\ ((2 - 7) % system.edo) \in StableSteps(system)
    /\ ~has_internal_stable(system, sorted(chord))

\* the chord has STABLE members and none of them is the perfect fifth
StableWithoutFifth(sys, c) ==
    /\ ContainsQuality(sys, c, STABLE)
    /\ \A m \in c : StepQuality(sys, m) = STABLE => m % sys.edo # sys.perfect_fifth

\* C25: any STABLE member meets the 'stable step present' condition of the
\* dominant shell: a chord without literal 0 whose STABLE members are all
\* other steps than the perfect fifth, without internal stable interval and
\* with an unresolved dominant-leading interval, is DOMINANT.
C25_AnyStableMakesShell ==
    (/\ Returned
     /\ StableWithoutFifth(system, chord)
     /\ 0 \notin chord
     /\ ~InternalStable(system, chord)
     /\ DominantLeading(system, chord)) => result = DOMINANT

\* C25 witness: such a chord without UNSTABLE member, in a Tuning System with
\* several STABLE steps.
C25_Witness ==
    /\ Returned
    /\ Cardinality({st \in 0..(system.edo - 1) : StepQuality(system, st) = STABLE}) >= 2
    /\ StableWithoutFifth(system, chord)
    /\ 0 \notin chord
    /\ ~InternalStable(system, chord)
    /\ DominantLeading(system, chord)
    /\ ~ContainsQuality(system, chord, UNSTABLE)
    /\ result = DOMINANT

\* every dominant-leading step that has a leading target leads to the root
LeadsToRootOnly(sys) ==
    \A d \in sys.dominant_leading_intervals :
        d \in DOMAIN sys.leading_targets => sys.leading_targets[d] % sys.edo = 0

\* C26: in a Tuning System whose dominant-leading steps with a leading target
\* all resolve to a step congruent to 0 mod edo, no chord with a member
\* congruent to 0 mod edo is DOMINANT.
C26_RootPresentNeverDominant ==
    (/\ Returned
     /\ LeadsToRootOnly(system)
     /\ \E m \in chord : m % system.edo = 0) => result # DOMINANT

\* C26 witness: a chord with an UNSTABLE member, a dominant-leading member
\* that has a target, and a member one octave above the root.
C26_Witness ==
    /\ Returned
    /\ LeadsToRootOnly(system)
    /\ \E m \in chord : m # 0 /\ m % system.edo = 0
    /\ \E m \in DominantLeadingMembers(system, chord) :
        (m % system.edo) \in DOMAIN system.leading_targets
    /\ ContainsQuality(system, chord, UNSTABLE)
    /\ result = PREDOMINANT

====
